---- MODULE Spec2Model ----
(***************************************************************************)
(* Model of VISinger/data_utils.py: DistributedBucketSampler (bucket       *)
(* construction, per-epoch batch generation), TextAudioLoader's            *)
(* get_audio_text_pair and TextAudioCollate.                               *)
(* Python lists are sequences; list positions and sample indices are       *)
(* 0-based as in the source, so element i of a list s is s[i + 1].         *)
(***************************************************************************)
EXTENDS Integers, Sequences, FiniteSets, Bags, TLC

\* ------------------------------------------------------------------------
\* Bounds of the model
\* ------------------------------------------------------------------------
MaxSamples == 2
MaxBoundary == 2
MaxBatchSize == 1
MaxReplicas == 2
MaxEpoch == 1
MaxFrames == 3
FeatureDim == 2
MaxRows == 3
MaxFieldLen == 2
SamplesPerFrame == 2

\* sample lengths go up to one above the largest boundary value
MaxLength == MaxBoundary + 1

VARIABLES
    args,                    \* constructor arguments (boundaries as passed)
    phase,                   \* "new" | "configured" | "failed"
    boundaries,              \* self.boundaries
    buckets,                 \* self.buckets
    num_samples_per_bucket,  \* self.num_samples_per_bucket
    total_size,              \* self.total_size
    num_samples,             \* self.num_samples
    epoch,                   \* self.epoch
    batches,                 \* self.batches (<<>> while the attribute is unset)
    raised,                  \* exception of the last call, or "none"
    yielded,                 \* batch sequence returned by the last __iter__
    last_call,               \* the operation that ran last ("none" before any)
    idx_bucket,              \* _create_buckets: _bisect result per sample
    ids_padded,              \* __iter__: per bucket, ids_bucket after line 265
    ids_sub,                 \* __iter__: per bucket, ids_bucket after line 268
    fresh,                   \* per epoch value: the batches the sampler yields
                             \* when iterated right after construction
    last_epoch,              \* epoch value of the last __iter__ call that
                             \* returned, -1 before the first
    repeat,                  \* the last __iter__ call returned at the epoch
                             \* value of the call before it, with epoch
                             \* changes in between
    fetch,                   \* TextAudioLoader.get_audio_text_pair state
    coll                     \* TextAudioCollate.__call__ state

vars == <<args, phase, boundaries, buckets, num_samples_per_bucket, total_size,
          num_samples, epoch, batches, raised, yielded, last_call, idx_bucket,
          ids_padded, ids_sub, fresh, last_epoch, repeat, fetch, coll>>

\* ------------------------------------------------------------------------
\* Python list and integer primitives
\* ------------------------------------------------------------------------
Min(a, b) == IF a <= b THEN a ELSE b

Max(a, b) == IF a >= b THEN a ELSE b

Range(s) == {s[k] : k \in DOMAIN s}

\* a // b (floor division), b # 0
PyFloorDiv(a, b) == IF b > 0 THEN a \div b ELSE (0 - a) \div (0 - b)

\* a % b (sign of the divisor), b # 0
PyMod(a, b) == a - b * PyFloorDiv(a, b)

\* s[:n] for n >= 0
Prefix(s, n) == SubSeq(s, 1, Min(n, Len(s)))

\* s[a:b] for 0 <= a <= b
Slice(s, a, b) == SubSeq(s, Min(a, Len(s)) + 1, Min(b, Len(s)))

\* s * n (n <= 0 gives the empty list)
RECURSIVE Repeat(_, _)
Repeat(s, n) == IF n <= 0 THEN <<>> ELSE s \o Repeat(s, n - 1)

\* s[start::step], start >= 0, step >= 1
Stride(s, start, step) ==
    LET n == IF start >= Len(s) THEN 0
             ELSE (Len(s) - start + step - 1) \div step
    IN  [k \in 1..n |-> s[start + (k - 1) * step + 1]]

\* s.pop(i), 0-based
Pop(s, i) == SubSeq(s, 1, i) \o SubSeq(s, i + 2, Len(s))

RECURSIVE SumSeq(_)
SumSeq(s) == IF s = <<>> THEN 0 ELSE s[1] + SumSeq(Tail(s))

\* list(range(n))
RangeList(n) == [k \in 1..n |-> k - 1]

\* ------------------------------------------------------------------------
\* torch.Generator / torch.randperm: a deterministic generator whose state
\* is seeded and then advanced by every draw
\* ------------------------------------------------------------------------
\* variant: the seed also depends on what an earlier iteration cached
ManualSeedStale(e) == (e + Len(batches)) % 16

ManualSeed(e) == e % 16

GenNext(g) == (5 * g + 3) % 16

Swap(p, i, j) == [k \in DOMAIN p |->
                    IF k = i + 1 THEN p[j + 1]
                    ELSE IF k = j + 1 THEN p[i + 1] ELSE p[k]]

RECURSIVE FisherYates(_, _, _)
FisherYates(p, i, g) ==
    IF i < 1 THEN [perm |-> p, g |-> g]
    ELSE LET g2 == GenNext(g)
         IN  FisherYates(Swap(p, i, g2 % (i + 1)), i - 1, g2)

\* torch.randperm(n, generator=g).tolist(), with the advanced generator
Randperm(n, g) == FisherYates(RangeList(n), n - 1, g)

\* ------------------------------------------------------------------------
\* DistributedBucketSampler._bisect
\* ------------------------------------------------------------------------
\* variant: the left half is taken only for x < boundaries[mid]
RECURSIVE BisectStrict(_, _, _, _)
BisectStrict(b, x, lo, hi) ==
    IF hi > lo
    THEN LET mid == (hi + lo) \div 2
         IN  IF b[mid + 1] < x /\ x <= b[mid + 2] THEN mid
             ELSE IF x < b[mid + 1] THEN BisectStrict(b, x, lo, mid)
             ELSE BisectStrict(b, x, mid + 1, hi)
    ELSE -1

\* variant: the intervals are closed on the left and open on the right
RECURSIVE BisectLeftClosed(_, _, _, _)
BisectLeftClosed(b, x, lo, hi) ==
    IF hi > lo
    THEN LET mid == (hi + lo) \div 2
         IN  IF b[mid + 1] <= x /\ x < b[mid + 2] THEN mid
             ELSE IF x < b[mid + 1] THEN BisectLeftClosed(b, x, lo, mid)
             ELSE BisectLeftClosed(b, x, mid + 1, hi)
    ELSE -1

RECURSIVE Bisect(_, _, _, _)
Bisect(b, x, lo, hi) ==
    IF hi > lo
    THEN LET mid == (hi + lo) \div 2
         IN  IF b[mid + 1] < x /\ x <= b[mid + 2] THEN mid
             ELSE IF x <= b[mid + 1] THEN Bisect(b, x, lo, mid)
             ELSE Bisect(b, x, mid + 1, hi)
    ELSE -1

\* self._bisect(x) with the default lo = 0, hi = None
_bisect(b, x) == Bisect(b, x, 0, Len(b) - 1)

\* ------------------------------------------------------------------------
\* DistributedBucketSampler._create_buckets
\* ------------------------------------------------------------------------
\* lines 223-228: one list per boundary interval, samples in index order
PlaceSamples(lens, b) ==
    [i \in 1..Max(Len(b) - 1, 0) |->
        SelectSeq(RangeList(Len(lens)),
                  LAMBDA k : _bisect(b, lens[k + 1]) = i - 1)]

\* lines 230-233: for i in range(len(buckets) - 1, 0, -1)
RECURSIVE PruneFrom(_, _, _)
PruneFrom(bk, bd, i) ==
    IF i <= 0 THEN [buckets |-> bk, boundaries |-> bd]
    ELSE IF Len(bk[i + 1]) = 0
         THEN PruneFrom(Pop(bk, i), Pop(bd, i + 1), i - 1)
         ELSE PruneFrom(bk, bd, i - 1)

PruneEmpty(bk, bd) == PruneFrom(bk, bd, Len(bk) - 1)

\* lines 238-240 for one bucket; total_batch_size # 0
PaddedCount(len_bucket, total_batch_size) ==
    LET rem == PyMod(total_batch_size - PyMod(len_bucket, total_batch_size),
                     total_batch_size)
    IN  len_bucket + rem

CreateBuckets(lens, b, batch_size, num_replicas) ==
    LET pruned == PruneEmpty(PlaceSamples(lens, b), b)
        total_batch_size == num_replicas * batch_size
    IN  IF Len(pruned.buckets) > 0 /\ total_batch_size = 0
        THEN [raised |-> "ZeroDivisionError", buckets |-> pruned.buckets,
              boundaries |-> pruned.boundaries, counts |-> <<>>]
        ELSE [raised |-> "none", buckets |-> pruned.buckets,
              boundaries |-> pruned.boundaries,
              counts |-> [i \in DOMAIN pruned.buckets |->
                            PaddedCount(Len(pruned.buckets[i]),
                                        total_batch_size)]]

\* ------------------------------------------------------------------------
\* DistributedBucketSampler.__iter__
\* ------------------------------------------------------------------------
\* lines 249-254: one index list per bucket, drawing from g in bucket order
RECURSIVE PermuteBuckets(_, _, _, _)
PermuteBuckets(bks, i, g, acc) ==
    IF i > Len(bks) THEN [ids |-> acc, g |-> g]
    ELSE LET r == Randperm(Len(bks[i]), g)
         IN  PermuteBuckets(bks, i + 1, r.g, Append(acc, r.perm))

BucketIndices(bks, shuf, g) ==
    IF shuf THEN PermuteBuckets(bks, 1, g, <<>>)
    ELSE [ids |-> [i \in DOMAIN bks |-> RangeList(Len(bks[i]))], g |-> g]

\* line 264-265, len_bucket # 0
ExtendIds(ids_bucket, len_bucket, num_samples_bucket) ==
    LET rem == num_samples_bucket - len_bucket
    IN  ids_bucket \o Repeat(ids_bucket, PyFloorDiv(rem, len_bucket))
                   \o Prefix(ids_bucket, PyMod(rem, len_bucket))

\* variant: every rank starts at offset 0
SubsampleFromStart(ids_bucket, rnk, num_replicas) ==
    Stride(ids_bucket, 0, num_replicas)

\* line 268
Subsample(ids_bucket, rnk, num_replicas) == Stride(ids_bucket, rnk, num_replicas)

\* lines 271-273, batch_size # 0
MakeBatches(bucket, ids_bucket, batch_size) ==
    LET n == Max(PyFloorDiv(Len(ids_bucket), batch_size), 0)
    IN  [j \in 1..n |->
            LET part == Slice(ids_bucket, (j - 1) * batch_size, j * batch_size)
            IN  [k \in DOMAIN part |-> bucket[part[k] + 1]]]

\* lines 256-273: the loop over the buckets, stopping at the first exception
RECURSIVE BucketLoop(_, _, _, _, _, _)
BucketLoop(self, ids, i, acc, padded, sub) ==
    IF i > Len(self.buckets)
    THEN [raised |-> "none", batches |-> acc, padded |-> padded, sub |-> sub]
    ELSE LET bucket == self.buckets[i]
             len_bucket == Len(bucket)
         IN  IF len_bucket = 0
             THEN [raised |-> "ZeroDivisionError", batches |-> acc,
                   padded |-> padded, sub |-> sub]
             ELSE LET ext == ExtendIds(ids[i], len_bucket, self.counts[i])
                      mine == Subsample(ext, self.rank, self.num_replicas)
                  IN  IF self.batch_size = 0
                      THEN [raised |-> "ZeroDivisionError", batches |-> acc,
                            padded |-> Append(padded, ext),
                            sub |-> Append(sub, mine)]
                      ELSE BucketLoop(self, ids, i + 1,
                               acc \o MakeBatches(bucket, mine, self.batch_size),
                               Append(padded, ext), Append(sub, mine))

\* lines 275-277
ShuffleBatches(bs, shuf, g) ==
    IF shuf
    THEN LET batch_ids == Randperm(Len(bs), g).perm
         IN  [k \in DOMAIN bs |-> bs[batch_ids[k] + 1]]
    ELSE bs

\* lines 243-281 as a function of the fields __iter__ reads
IterRun(self) ==
    LET g0 == ManualSeed(self.epoch)
        ind == BucketIndices(self.buckets, self.shuffle, g0)
        loop == BucketLoop(self, ind.ids, 1, <<>>, <<>>, <<>>)
    IN  IF loop.raised # "none"
        THEN [raised |-> loop.raised, assigned |-> FALSE, batches |-> <<>>,
              padded |-> loop.padded, sub |-> loop.sub]
        ELSE LET out == ShuffleBatches(loop.batches, self.shuffle, ind.g)
             IN  [raised |-> IF Len(out) * self.batch_size = self.num_samples
                             THEN "none" ELSE "AssertionError",
                  assigned |-> TRUE, batches |-> out,
                  padded |-> loop.padded, sub |-> loop.sub]

\* the fields of the sampler that __iter__ reads
Self == [buckets |-> buckets, counts |-> num_samples_per_bucket,
         rank |-> args.rank, num_replicas |-> args.num_replicas,
         batch_size |-> args.batch_size, shuffle |-> args.shuffle,
         epoch |-> epoch, num_samples |-> num_samples]

\* ------------------------------------------------------------------------
\* Configurations
\* ------------------------------------------------------------------------
SeqsUpTo(S, n) == UNION {[1..k -> S] : k \in 0..n}

IsAscending(b) == \A i \in 1..(Len(b) - 1) : b[i] < b[i + 1]

\* spectrogram lengths of audio files that hold at least one frame
LengthLists == SeqsUpTo(1..MaxLength, MaxSamples)

BoundaryLists == {b \in SeqsUpTo(0..MaxBoundary, MaxBoundary + 1) :
                    Len(b) >= 2 /\ IsAscending(b)}

Ranks == {rr \in (1..MaxReplicas) \X (0..(MaxReplicas - 1)) : rr[2] < rr[1]}

ValidConfigs ==
    {[lengths |-> l, boundaries |-> b, batch_size |-> bs,
      num_replicas |-> rr[1], rank |-> rr[2], shuffle |-> sh] :
        l \in LengthLists, b \in BoundaryLists, bs \in 1..MaxBatchSize,
        rr \in Ranks, sh \in BOOLEAN}

ConfigError(a) == \/ a.batch_size <= 0
                  \/ ~IsAscending(a.boundaries)
                  \/ Len(a.boundaries) < 2

FaultyConfigs ==
    {a \in [lengths : SeqsUpTo(1..MaxLength, MaxSamples - 1),
            boundaries : SeqsUpTo(0..MaxBoundary, MaxBoundary),
            batch_size : (-1)..MaxBatchSize,
            num_replicas : 1..MaxReplicas, rank : {0},
            shuffle : BOOLEAN] : ConfigError(a)}

FetchIdle == [pc |-> "idle"]

CollIdle == [pc |-> "idle"]

\* ------------------------------------------------------------------------
\* Sampler: state before the constructor runs, and its operations
\* ------------------------------------------------------------------------
InitSampler(configs) ==
    /\ args \in configs
    /\ phase = "new"
    /\ boundaries = <<>>
    /\ buckets = <<>>
    /\ num_samples_per_bucket = <<>>
    /\ total_size = 0
    /\ num_samples = 0
    /\ epoch = 0
    /\ batches = <<>>
    /\ raised = "none"
    /\ yielded = <<>>
    /\ last_call = "none"
    /\ idx_bucket = <<>>
    /\ ids_padded = <<>>
    /\ ids_sub = <<>>
    /\ fresh = <<>>
    /\ last_epoch = -1
    /\ repeat = FALSE

\* what __iter__ returns on the sampler that construction leaves, at epoch e
FreshBatches(cb, a, e) ==
    LET run == IterRun([buckets |-> cb.buckets, counts |-> cb.counts,
                        rank |-> a.rank, num_replicas |-> a.num_replicas,
                        batch_size |-> a.batch_size, shuffle |-> a.shuffle,
                        epoch |-> e,
                        num_samples |-> PyFloorDiv(SumSeq(cb.counts),
                                                   a.num_replicas)])
    IN  IF run.raised = "none" THEN run.batches ELSE <<>>

\* DistributedBucketSampler.__init__ (lines 212-220)
Construct ==
    /\ phase = "new"
    /\ LET cb == CreateBuckets(args.lengths, args.boundaries,
                               args.batch_size, args.num_replicas)
       IN  /\ idx_bucket' = [k \in DOMAIN args.lengths |->
                                _bisect(args.boundaries, args.lengths[k])]
           /\ boundaries' = cb.boundaries
           /\ raised' = cb.raised
           /\ IF cb.raised = "none"
              THEN /\ phase' = "configured"
                   /\ buckets' = cb.buckets
                   /\ num_samples_per_bucket' = cb.counts
                   /\ total_size' = SumSeq(cb.counts)
                   /\ num_samples' = PyFloorDiv(SumSeq(cb.counts),
                                                args.num_replicas)
                   /\ fresh' = [e \in 0..MaxEpoch |->
                                   FreshBatches(cb, args, e)]
              ELSE /\ phase' = "failed"
                   /\ UNCHANGED <<buckets, num_samples_per_bucket, total_size,
                                  num_samples, fresh>>
    /\ last_call' = "init"
    /\ UNCHANGED <<args, epoch, batches, yielded, ids_padded, ids_sub,
                   last_epoch, repeat, fetch, coll>>

\* DistributedSampler.set_epoch, called by the training loop between epochs
SetEpoch ==
    /\ phase = "configured"
    /\ \E e \in 0..MaxEpoch :
          /\ e # epoch
          /\ epoch' = e
    /\ last_call' = "set_epoch"
    /\ UNCHANGED <<args, phase, boundaries, buckets, num_samples_per_bucket,
                   total_size, num_samples, batches, raised, yielded,
                   idx_bucket, ids_padded, ids_sub, fresh, last_epoch, repeat, fetch, coll>>

\* variant: the iteration prunes again, dropping an empty first bucket with
\* its boundary before it builds the batches
IterRepruning ==
    /\ phase = "configured"
    /\ LET drop == Len(buckets) > 1 /\ Len(buckets[1]) = 0
           bk == IF drop THEN Tail(buckets) ELSE buckets
           cnt == IF drop THEN Tail(num_samples_per_bucket)
                  ELSE num_samples_per_bucket
           run == IterRun([Self EXCEPT !.buckets = bk, !.counts = cnt])
       IN  /\ buckets' = bk
           /\ num_samples_per_bucket' = cnt
           /\ boundaries' = IF drop THEN Tail(boundaries) ELSE boundaries
           /\ raised' = run.raised
           /\ batches' = IF run.assigned THEN run.batches ELSE batches
           /\ yielded' = IF run.raised = "none" THEN run.batches ELSE <<>>
           /\ ids_padded' = run.padded
           /\ ids_sub' = run.sub
           /\ last_epoch' = IF run.raised = "none" THEN epoch ELSE last_epoch
           /\ repeat' = (run.raised = "none" /\ last_epoch = epoch
                             /\ last_call = "set_epoch")
    /\ last_call' = "iter"
    /\ UNCHANGED <<args, phase, total_size, num_samples, epoch, idx_bucket,
                   fresh, fetch, coll>>

\* DistributedBucketSampler.__iter__ (lines 243-281)
Iter ==
    /\ phase = "configured"
    /\ LET run == IterRun(Self)
       IN  /\ raised' = run.raised
           /\ batches' = IF run.assigned THEN run.batches ELSE batches
           /\ yielded' = IF run.raised = "none" THEN run.batches ELSE <<>>
           /\ ids_padded' = run.padded
           /\ ids_sub' = run.sub
           /\ last_epoch' = IF run.raised = "none" THEN epoch ELSE last_epoch
           /\ repeat' = (run.raised = "none" /\ last_epoch = epoch
                             /\ last_call = "set_epoch")
    /\ last_call' = "iter"
    /\ UNCHANGED <<args, phase, boundaries, buckets, num_samples_per_bucket,
                   total_size, num_samples, epoch, idx_bucket, fresh, fetch,
                   coll>>

NextSampler == Construct \/ SetEpoch \/ Iter

Init == InitSampler(ValidConfigs) /\ fetch = FetchIdle /\ coll = CollIdle

Spec == Init /\ [][NextSampler]_vars

InitFaulty == InitSampler(FaultyConfigs) /\ fetch = FetchIdle /\ coll = CollIdle

SpecFaulty == InitFaulty /\ [][NextSampler]_vars

\* ------------------------------------------------------------------------
\* Properties of the sampler
\* ------------------------------------------------------------------------
Returned == phase = "configured" /\ last_call = "iter" /\ raised = "none"

\* at least one sample of the dataset falls inside the boundaries
SomePlaced == \E k \in DOMAIN idx_bucket : idx_bucket[k] # -1

\* C1: for every sampler built with batch_size > 0 and replica_count > 0,
\* every rank and every epoch, an iteration yields batches of exactly
\* batch_size elements, and len(batches) * batch_size equals
\* sum(padded_counts) // replica_count (the final assertion never fails).
C1_IterYieldsEvenBatches ==
    (phase = "configured" /\ last_call = "iter" /\ SomePlaced) =>
        /\ raised = "none"
        /\ \A k \in DOMAIN yielded : Len(yielded[k]) = args.batch_size
        /\ Len(yielded) * args.batch_size =
               SumSeq(num_samples_per_bucket) \div args.num_replicas

\* C2: two iterations at the same epoch value, with any iterations and
\* epoch changes in between, return element-wise equal batch sequences:
\* every iteration returns what the sampler returns at that epoch value right
\* after construction, whatever ran before.
C2_SameEpochSameBatches == Returned => yielded = fresh[epoch]

C2_Witness ==
    /\ Returned
    /\ args.shuffle
    /\ repeat
    /\ \E e \in 0..MaxEpoch : fresh[e] # yielded
    /\ Len(yielded) >= 2

C4_NoEmptyBucketAfterConstruction ==
    (phase = "configured" /\ SomePlaced) =>
        /\ \A i \in DOMAIN buckets : Len(buckets[i]) > 0
        /\ Len(boundaries) = Len(buckets) + 1
        /\ (\E i \in 0..(Len(args.boundaries) - 2) :
                \A k \in DOMAIN idx_bucket : idx_bucket[k] = i)
              => Len(buckets) = 1

\* C5 (as stated): for a fixed epoch and bucket, the index sets
\* ids[rank::replica_count] of the ranks are pairwise disjoint and their
\* union is the cyclically extended index list of the bucket.
C5_RankSetsDisjoint ==
    \A i \in DOMAIN ids_padded :
        LET part(r) == Range(Subsample(ids_padded[i], r, args.num_replicas))
            ranks == 0..(args.num_replicas - 1)
        IN  /\ \A r1, r2 \in ranks : r1 # r2 => part(r1) \cap part(r2) = {}
            /\ UNION {part(r) : r \in ranks} = Range(ids_padded[i])

SeqToBag(s) == [v \in Range(s) |-> Cardinality({k \in DOMAIN s : s[k] = v})]

RECURSIVE BagOfRanks(_, _, _)
BagOfRanks(ids, r, num_replicas) ==
    IF r >= num_replicas THEN EmptyBag
    ELSE SeqToBag(Subsample(ids, r, num_replicas))
             (+) BagOfRanks(ids, r + 1, num_replicas)

\* C5 (amended): the lists ids[rank::replica_count] of the ranks all have the
\* same length and together hold every entry of the extended list exactly as
\* often as the extended list does (an index repeated by the cyclic extension
\* may go to several ranks); they are pairwise disjoint as sets when the
\* bucket needed no extension.
C5_RanksPartitionPaddedList ==
    \A i \in DOMAIN ids_padded :
        LET part(r) == Subsample(ids_padded[i], r, args.num_replicas)
            ranks == 0..(args.num_replicas - 1)
        IN  /\ ids_sub[i] = part(args.rank)
            /\ BagOfRanks(ids_padded[i], 0, args.num_replicas)
                   = SeqToBag(ids_padded[i])
            /\ \A r \in ranks :
                  Len(part(r)) * args.num_replicas = Len(ids_padded[i])
            /\ Len(ids_padded[i]) = Len(buckets[i]) =>
                  \A r1, r2 \in ranks :
                      r1 # r2 => Range(part(r1)) \cap Range(part(r2)) = {}

C5_Witness ==
    /\ Returned
    /\ args.num_replicas >= 2
    /\ args.shuffle
    /\ Len(buckets) >= 2
    /\ \E i \in DOMAIN ids_padded : Len(ids_padded[i]) > Len(buckets[i])

\* the unique interval of b that holds x, or -1
IntervalOf(b, x) ==
    IF \E i \in 0..(Len(b) - 2) : b[i + 1] < x /\ x <= b[i + 2]
    THEN CHOOSE i \in 0..(Len(b) - 2) : b[i + 1] < x /\ x <= b[i + 2]
    ELSE -1

\* C9: on an ascending boundary list, _bisect returns the unique i with
\* boundaries[i] < x <= boundaries[i+1], or -1 when there is none; so sample
\* k is placed in bucket i exactly when its length is in that interval, and
\* in no bucket exactly when its length is <= boundaries[0] or > boundaries[-1].
C9_BisectFindsInterval ==
    phase = "configured" =>
        LET b == args.boundaries
        IN  /\ \A k \in DOMAIN idx_bucket :
                  LET x == args.lengths[k]
                      r == idx_bucket[k]
                  IN  /\ r = IntervalOf(b, x)
                      /\ \A i \in 0..(Len(b) - 2) :
                            (b[i + 1] < x /\ x <= b[i + 2]) <=> r = i
                      /\ r = -1 <=> (x <= b[1] \/ x > b[Len(b)])
                      /\ r = -1 <=> ~\E j \in DOMAIN buckets :
                                       (k - 1) \in Range(buckets[j])
            /\ \A k \in DOMAIN idx_bucket, i \in 0..(Len(b) - 2) :
                  (k - 1) \in Range(PlaceSamples(args.lengths, b)[i + 1])
                      <=> idx_bucket[k] = i
            /\ \A x \in (-1)..(MaxLength + 1) :
                  _bisect(boundaries, x) = IntervalOf(boundaries, x)

C9_Witness ==
    /\ phase = "configured"
    /\ Len(args.boundaries) >= 3
    /\ \E k \in DOMAIN idx_bucket : idx_bucket[k] = -1
    /\ \E k \in DOMAIN idx_bucket : idx_bucket[k] = Len(args.boundaries) - 2

\* C10: after construction, epoch changes and iterations leave the buckets,
\* the padded counts, the boundary list, total_size and num_samples
\* unchanged; an epoch change leaves the cached batch list alone and a
\* returning iteration replaces it by exactly the batches of that call.
C10_IterationOnlyReplacesBatches ==
    [][phase = "configured" =>
          /\ UNCHANGED <<buckets, num_samples_per_bucket, boundaries,
                         total_size, num_samples, phase, args>>
          /\ last_call' = "set_epoch" => batches' = batches
          /\ (last_call' = "iter" /\ raised' = "none") =>
                /\ batches' = yielded'
                /\ Len(batches') * args.batch_size = num_samples]_vars

C10_Witness ==
    /\ phase = "configured"
    /\ last_call = "set_epoch"
    /\ Len(batches) >= 2
    /\ Len(boundaries) < Len(args.boundaries)
    /\ last_epoch # epoch

\* C6: a configuration error (a non-positive batch size, a boundary list
\* that is not ascending or has fewer than 2 entries) makes construction
\* fail; it never returns a sampler.
C6_ConfigErrorFailsConstruction ==
    (ConfigError(args) /\ phase # "new") => phase = "failed"

\* ------------------------------------------------------------------------
\* TextAudioLoader.get_audio_text_pair
\* A 1-D tensor is a sequence; a 2-D tensor is a sequence of rows (spec has
\* FeatureDim rows, wav has one row).  get_text_tone and get_audio are the
\* loaders: the state before the call holds what they return.
\* ------------------------------------------------------------------------
\* the frame hop written into line 82
HopSize == 256

HopLengths == {128, 256, 512}

Cols(m) == Len(m[1])

\* m[:, :n]
SliceCols(m, n) == [f \in DOMAIN m |-> Prefix(m[f], n)]

Ramp(n, base) == [k \in 1..n |-> base + k]

LoadedSamples ==
    {[pc |-> "loaded", hop_length |-> h,
      text |-> Ramp(lt, 0), tone |-> Ramp(ln, 0), f0 |-> Ramp(lf, 0),
      spec |-> [f \in 1..FeatureDim |-> Ramp(ls, 10 * f)],
      wav |-> <<Ramp(ls * h + extra, 0)>>] :
        h \in HopLengths, lt \in 1..MaxFrames, ln \in 1..MaxFrames,
        ls \in 1..MaxFrames, lf \in 1..MaxFrames, extra \in 0..1}

\* lines 66-91
GetAudioTextPair ==
    /\ fetch.pc = "loaded"
    /\ LET len_text == Len(fetch.text)
           len_tone == Len(fetch.tone)
           len_spec == Cols(fetch.spec)
           len_min == Min(len_text, len_spec)
           len_wav == len_min * HopSize
       IN  fetch' =
             IF len_text # len_tone
             THEN [fetch EXCEPT !.pc = "AssertionError"]
             ELSE IF len_text # len_spec
             THEN [pc |-> "returned", hop_length |-> fetch.hop_length,
                   text |-> fetch.text, tone |-> fetch.tone, f0 |-> fetch.f0,
                   spec |-> fetch.spec, wav |-> fetch.wav,
                   out |-> [text |-> Prefix(fetch.text, len_min),
                            tone |-> Prefix(fetch.tone, len_min),
                            f0 |-> Prefix(fetch.f0, len_min),
                            spec |-> SliceCols(fetch.spec, len_min),
                            wav |-> SliceCols(fetch.wav, len_wav)]]
             ELSE [pc |-> "returned", hop_length |-> fetch.hop_length,
                   text |-> fetch.text, tone |-> fetch.tone, f0 |-> fetch.f0,
                   spec |-> fetch.spec, wav |-> fetch.wav,
                   out |-> [text |-> fetch.text, tone |-> fetch.tone,
                            f0 |-> fetch.f0, spec |-> fetch.spec,
                            wav |-> fetch.wav]]
    /\ UNCHANGED <<args, phase, boundaries, buckets, num_samples_per_bucket,
                   total_size, num_samples, epoch, batches, raised, yielded,
                   last_call, idx_bucket, ids_padded, ids_sub, fresh, last_epoch, repeat, coll>>

SamplerIdle ==
    /\ args = [lengths |-> <<>>, boundaries |-> <<>>, batch_size |-> 1,
               num_replicas |-> 1, rank |-> 0, shuffle |-> FALSE]
    /\ phase = "unused"
    /\ boundaries = <<>>
    /\ buckets = <<>>
    /\ num_samples_per_bucket = <<>>
    /\ total_size = 0
    /\ num_samples = 0
    /\ epoch = 0
    /\ batches = <<>>
    /\ raised = "none"
    /\ yielded = <<>>
    /\ last_call = "none"
    /\ idx_bucket = <<>>
    /\ ids_padded = <<>>
    /\ ids_sub = <<>>
    /\ fresh = <<>>
    /\ last_epoch = -1
    /\ repeat = FALSE

InitFetch == SamplerIdle /\ fetch \in LoadedSamples /\ coll = CollIdle

SpecFetch == InitFetch /\ [][GetAudioTextPair]_vars

\* C7: when text length and spec time length differ, text, tone and spec
\* come back truncated to m = min(len(text), spec.time) and wav to
\* m * hop_length samples; when they are equal everything comes back unchanged.
C7_WavCutToHopLengthFrames ==
    fetch.pc = "returned" =>
        LET m == Min(Len(fetch.text), Cols(fetch.spec))
        IN  IF Len(fetch.text) # Cols(fetch.spec)
            THEN /\ fetch.out.text = Prefix(fetch.text, m)
                 /\ fetch.out.tone = Prefix(fetch.tone, m)
                 /\ fetch.out.spec = SliceCols(fetch.spec, m)
                 /\ fetch.out.wav = SliceCols(fetch.wav, m * fetch.hop_length)
            ELSE /\ fetch.out.text = fetch.text
                 /\ fetch.out.tone = fetch.tone
                 /\ fetch.out.f0 = fetch.f0
                 /\ fetch.out.spec = fetch.spec
                 /\ fetch.out.wav = fetch.wav

\* ------------------------------------------------------------------------
\* TextAudioCollate.__call__
\* A batch is a list of samples <<text, tone, f0, spec, wav>>, kept as records.
\* ------------------------------------------------------------------------
\* row p of a batch: its values tell the samples and the positions apart;
\* tone is as long as text (line 74), f0 has one value per spec frame and wav
\* a fixed number of values per spec frame (lines 80-85), here SamplesPerFrame
SampleAt(p, lt, ls) ==
    [text |-> Ramp(lt, 10 * p), tone |-> Ramp(lt, 20 * p),
     f0 |-> Ramp(ls, 30 * p),
     spec |-> [f \in 1..FeatureDim |-> Ramp(ls, 100 * p + 10 * f)],
     wav |-> <<Ramp(ls * SamplesPerFrame, 40 * p)>>]

FieldLens == (1..MaxFieldLen) \X (1..MaxFieldLen)

\* the batch whose row p has the field lengths l[p]
BatchOf(l) == [p \in DOMAIN l |-> SampleAt(p, l[p][1], l[p][2])]

\* max([...]) of a non-empty list
MaxOf(S) == CHOOSE m \in S : \A v \in S : v <= m

\* a zero-filled row of length n with s copied into its first Len(s) places
ZeroPad(s, n) == [k \in 1..n |-> IF k <= Len(s) THEN s[k] ELSE 0]

\* variant: ascending order
IsSortedIncreasing(ids, lens) ==
    \A i \in 1..(Len(ids) - 1) : lens[ids[i] + 1] <= lens[ids[i + 1] + 1]

\* torch.sort(..., descending=True): ties may come out in either order
IsSortedDecreasing(ids, lens) ==
    \A i \in 1..(Len(ids) - 1) : lens[ids[i] + 1] >= lens[ids[i + 1] + 1]

SortOrders(lens) ==
    {ids \in [1..Len(lens) -> 0..(Len(lens) - 1)] :
        /\ \A i, j \in DOMAIN ids : i # j => ids[i] # ids[j]
        /\ IsSortedDecreasing(ids, lens)}

\* lines 142-200
Collate ==
    /\ coll.pc = "batch"
    /\ LET batch == coll.batch
           n == Len(batch)
       IN  IF n = 0
           THEN coll' = [coll EXCEPT !.pc = "ValueError"]
           ELSE \E ids_sorted_decreasing \in
                      SortOrders([p \in 1..n |-> Cols(batch[p].spec)]) :
                  LET max_text_len == MaxOf({Len(batch[p].text) : p \in 1..n})
                      max_tone_len == MaxOf({Len(batch[p].tone) : p \in 1..n})
                      max_f0_len == MaxOf({Len(batch[p].f0) : p \in 1..n})
                      max_spec_len == MaxOf({Cols(batch[p].spec) : p \in 1..n})
                      max_wav_len == MaxOf({Cols(batch[p].wav) : p \in 1..n})
                      row(i) == batch[ids_sorted_decreasing[i] + 1]
                  IN  coll' =
                        [pc |-> "done", batch |-> batch,
                         return_ids |-> coll.return_ids,
                         ids_sorted_decreasing |-> ids_sorted_decreasing,
                         text_padded |->
                             [i \in 1..n |-> ZeroPad(row(i).text, max_text_len)],
                         text_lengths |-> [i \in 1..n |-> Len(row(i).text)],
                         tone_padded |->
                             [i \in 1..n |-> ZeroPad(row(i).tone, max_tone_len)],
                         tone_lengths |-> [i \in 1..n |-> Len(row(i).tone)],
                         f0_padded |->
                             [i \in 1..n |-> ZeroPad(row(i).f0, max_f0_len)],
                         f0_lengths |-> [i \in 1..n |-> Len(row(i).f0)],
                         spec_padded |->
                             [i \in 1..n |->
                                 [f \in 1..Len(batch[1].spec) |->
                                     ZeroPad(row(i).spec[f], max_spec_len)]],
                         spec_lengths |-> [i \in 1..n |-> Cols(row(i).spec)],
                         wav_padded |->
                             [i \in 1..n |->
                                 <<ZeroPad(row(i).wav[1], max_wav_len)>>],
                         wav_lengths |-> [i \in 1..n |-> Cols(row(i).wav)]]
    /\ UNCHANGED <<args, phase, boundaries, buckets, num_samples_per_bucket,
                   total_size, num_samples, epoch, batches, raised, yielded,
                   last_call, idx_bucket, ids_padded, ids_sub, fresh, last_epoch, repeat, fetch>>

InitCollate ==
    /\ SamplerIdle
    /\ fetch = FetchIdle
    /\ \E n \in 0..MaxRows, r \in BOOLEAN :
          \E l \in [1..n -> FieldLens] :
              coll = [pc |-> "batch", batch |-> BatchOf(l), return_ids |-> r]

SpecCollate == InitCollate /\ [][Collate]_vars

\* row i of a padded 1-D field holds src in its first Len(src) places, zeros
\* after them, and is as long as the longest src of the batch
PaddedRowOk(padded_row, src, all_lens) ==
    /\ Len(padded_row) = MaxOf(all_lens)
    /\ \A k \in DOMAIN padded_row :
          padded_row[k] = IF k <= Len(src) THEN src[k] ELSE 0

\* C8: for a non-empty batch the output rows are in descending order of spec
\* time length; every row of every field holds the values of its source
\* sample in its first true-length places and zeros beyond, its length entry
\* is that true length, and every padded field is as long as the longest
\* sample of that field.
C8_CollateSortsAndZeroPads ==
    coll.pc = "done" =>
        LET batch == coll.batch
            n == Len(batch)
            ids == coll.ids_sorted_decreasing
            src(i) == batch[ids[i] + 1]
        IN  /\ Len(ids) = n
            /\ Range(ids) = 0..(n - 1)
            /\ \A i \in 1..(n - 1) : coll.spec_lengths[i] >= coll.spec_lengths[i + 1]
            /\ \A i \in 1..n :
                  /\ coll.text_lengths[i] = Len(src(i).text)
                  /\ coll.tone_lengths[i] = Len(src(i).tone)
                  /\ coll.f0_lengths[i] = Len(src(i).f0)
                  /\ coll.spec_lengths[i] = Cols(src(i).spec)
                  /\ coll.wav_lengths[i] = Cols(src(i).wav)
                  /\ PaddedRowOk(coll.text_padded[i], src(i).text,
                                 {Len(batch[p].text) : p \in 1..n})
                  /\ PaddedRowOk(coll.tone_padded[i], src(i).tone,
                                 {Len(batch[p].tone) : p \in 1..n})
                  /\ PaddedRowOk(coll.f0_padded[i], src(i).f0,
                                 {Len(batch[p].f0) : p \in 1..n})
                  /\ Len(coll.spec_padded[i]) = FeatureDim
                  /\ \A f \in 1..FeatureDim :
                        PaddedRowOk(coll.spec_padded[i][f], src(i).spec[f],
                                    {Cols(batch[p].spec) : p \in 1..n})
                  /\ Len(coll.wav_padded[i]) = 1
                  /\ PaddedRowOk(coll.wav_padded[i][1], src(i).wav[1],
                                 {Cols(batch[p].wav) : p \in 1..n})

C8_Witness ==
    /\ coll.pc = "done"
    /\ Len(coll.batch) = 3
    /\ coll.ids_sorted_decreasing = <<1, 2, 0>>
    /\ coll.spec_lengths = <<2, 1, 1>>
    /\ coll.text_lengths = <<1, 1, 2>>
    /\ coll.wav_lengths = <<2 * SamplesPerFrame, SamplesPerFrame,
                            SamplesPerFrame>>

====
